---- MODULE Spec2Model ----
(***************************************************************************)
(* State-machine model of air_quality_geospatial_analysis.py: the batch    *)
(* pipeline main() (fetch, fallback, CO2 mean, facility join, export) and  *)
(* its helpers _standardise_carbon_monitor, get_pm25_latest and _read_tri. *)
(*                                                                         *)
(* Conventions.                                                            *)
(*  - A float is a reduced fraction <<n, d>> with d >= 1; NaN (the missing *)
(*    sentinel, also pandas' empty cell) is <<0, 0>>.                      *)
(*  - A column or header name that the code inspects character by          *)
(*    character is a sequence of one-character strings.                    *)
(*  - A DataFrame is a sequence of rows, each row a record keyed by column *)
(*    name; a raw file is its header plus rows of cells in header order.   *)
(*  - Coordinates of the configured cities are in 1e-4 degrees.            *)
(*  - An exception is the record [exc |-> name]; a helper that can raise   *)
(*    returns either that record or [ok |-> value].                        *)
(***************************************************************************)
EXTENDS Integers, Sequences, FiniteSets, TLC

\* ------------------------------------------------------------------ bounds
\* longest list of measurements one station reports, and of stations
MaxMeas == 1
MaxLocs == 2
\* longest raw emissions table
MaxRows == 2

\* -------------------------------------------------------- program constants
YEARS == <<2024>>

CITIES ==
  << <<"New York", 407128, -740060>>,
     <<"Los Angeles", 340522, -1182437>>,
     <<"Chicago", 418781, -876298>>,
     <<"Houston", 297604, -953698>>,
     <<"Phoenix", 334484, -1120740>>,
     <<"Philadelphia", 399526, -751652>>,
     <<"Tampa", 279506, -824572>> >>

CityNames == [k \in 1..Len(CITIES) |-> CITIES[k][1]]

\* ------------------------------------------------------------------ floats
NaN == <<0, 0>>

\* pd.isna
IsNa(x) == x[2] = 0

RECURSIVE Gcd(_, _)
Gcd(a, b) == IF b = 0 THEN a ELSE Gcd(b, a % b)

Frac(n, d) == LET g == Gcd(n, d) IN <<n \div g, d \div g>>

Whole(n) == <<n, 1>>

AddF(a, b) == Frac(a[1] * b[2] + b[1] * a[2], a[2] * b[2])

RECURSIVE SumF(_)
SumF(s) == IF s = <<>> THEN Whole(0) ELSE AddF(Head(s), SumF(Tail(s)))

DivF(a, k) == Frac(a[1], a[2] * k)

\* f"{x:.1f}": x rounded to one decimal, ties to even, as decimal text
Tenths(x) ==
  LET t == x[1] * 10
      q == t \div x[2]
      r == t % x[2]
  IN  IF 2 * r > x[2] \/ (2 * r = x[2] /\ q % 2 = 1) THEN q + 1 ELSE q

Format1f(x) == ToString(Tenths(x) \div 10) \o "." \o ToString(Tenths(x) % 10)

\* ----------------------------------------------------------------- strings
UpperLetters ==
  << "A", "B", "C", "D", "E", "F", "G", "H", "I", "J", "K", "L", "M",
     "N", "O", "P", "Q", "R", "S", "T", "U", "V", "W", "X", "Y", "Z" >>

LowerLetters ==
  << "a", "b", "c", "d", "e", "f", "g", "h", "i", "j", "k", "l", "m",
     "n", "o", "p", "q", "r", "s", "t", "u", "v", "w", "x", "y", "z" >>

LowerCh(c) ==
  IF \E k \in 1..26 : UpperLetters[k] = c
  THEN LowerLetters[CHOOSE k \in 1..26 : UpperLetters[k] = c]
  ELSE c

UpperCh(c) ==
  IF \E k \in 1..26 : LowerLetters[k] = c
  THEN UpperLetters[CHOOSE k \in 1..26 : LowerLetters[k] = c]
  ELSE c

\* str.lower, str.upper, str.startswith
Lower(s) == [k \in 1..Len(s) |-> LowerCh(s[k])]

Upper(s) == [k \in 1..Len(s) |-> UpperCh(s[k])]

StartsWith(s, p) == Len(s) >= Len(p) /\ SubSeq(s, 1, Len(p)) = p

RECURSIVE Flatten(_)
Flatten(ss) == IF ss = <<>> THEN <<>> ELSE Head(ss) \o Flatten(Tail(ss))

SeqsUpTo(S, n) == UNION {[1..k -> S] : k \in 0..n}

Ok(v) == [ok |-> v]

Raise(name) == [exc |-> name]

IsExc(r) == "exc" \in DOMAIN r

\* ------------------------------------------------------ get_pm25_latest
(* An HTTP exchange as the code sees it:                                   *)
(*   net    - "ok", or the exception requests.get raises                   *)
(*   status - the HTTP status code                                         *)
(*   body   - "text" (not JSON), "array" (JSON, but no object), or         *)
(*            "object" with results: one sequence of measurements per      *)
(*            location; a measurement is a record that may lack "value",   *)
(*            and a value is <<"num", n>> or <<"null", 0>>.                *)
JNum(n) == <<"num", n>>

JNull == <<"null", 0>>

Measurements ==
  { [value |-> JNum(10)], [value |-> JNum(20)], [value |-> JNull], [unit |-> JNull] }

NoBody == [kind |-> "text", results |-> <<>>]

FailedExchanges ==
  { [net |-> "ConnectionError", status |-> 0, body |-> NoBody],
    [net |-> "Timeout", status |-> 0, body |-> NoBody],
    [net |-> "ok", status |-> 410, body |-> NoBody],
    [net |-> "ok", status |-> 500, body |-> NoBody],
    [net |-> "ok", status |-> 200, body |-> NoBody],
    [net |-> "ok", status |-> 200, body |-> [kind |-> "array", results |-> <<>>]] }

ObjectExchange(results) ==
  [net |-> "ok", status |-> 200, body |-> [kind |-> "object", results |-> results]]

\* every exchange within the bounds
Exchanges ==
  FailedExchanges \cup
  { ObjectExchange(res) : res \in SeqsUpTo(SeqsUpTo(Measurements, MaxMeas), MaxLocs) }

\* the exchanges the pipeline run draws from: every failure, no measurement,
\* and one station reporting 10 and 20
RunExchanges ==
  FailedExchanges \cup
  { ObjectExchange(<<>>),
    ObjectExchange(<< <<[value |-> JNum(10)], [value |-> JNum(20)]>> >>) }

\* lines 65-69, the body of the try
Pm25Try(x) ==
  IF x.net # "ok" THEN Raise(x.net)
  ELSE IF x.status >= 400 THEN Raise("HTTPError")
  ELSE IF x.body.kind = "text" THEN Raise("JSONDecodeError")
  ELSE IF x.body.kind = "array" THEN Raise("AttributeError")
  ELSE LET ms == Flatten(x.body.results) IN
       IF \E k \in 1..Len(ms) : "value" \notin DOMAIN ms[k] THEN Raise("KeyError")
       ELSE LET values == [k \in 1..Len(ms) |-> ms[k].value] IN
            IF values = <<>> THEN Ok(NaN)
            ELSE IF \E k \in 1..Len(values) : values[k][1] # "num" THEN Raise("TypeError")
            ELSE Ok(DivF(SumF([k \in 1..Len(values) |-> Whole(values[k][2])]), Len(values)))

\* get_pm25_latest without its except clause
Pm25Uncaught(x) == Pm25Try(x)

\* lines 64-71: try ... except Exception: return nan
get_pm25_latest(x) ==
  LET r == Pm25Try(x) IN IF IsExc(r) THEN Ok(NaN) ELSE r

\* ------------------------------------------- _standardise_carbon_monitor
H_city == <<"c", "i", "t", "y">>

H_date == <<"d", "a", "t", "e">>

H_emissions == <<"e", "m", "i", "s", "s", "i", "o", "n", "s">>

H_emission == <<"e", "m", "i", "s", "s", "i", "o", "n">>

H_value == <<"v", "a", "l", "u", "e">>

H_co2 == <<"c", "o", "2">>

\* headers of raw emissions files: three that name the emissions column in
\* a way the heuristic accepts, one that does not, one without a date column
CmHeaders ==
  { <<H_city, H_date, <<"E", "m", "i", "s", "s", "i", "o", "n", "s", "_", "t">> >>,
    <<H_city, H_date, <<"V", "a", "l", "u", "e">> >>,
    <<H_city, H_date, <<"C", "O", "2">> >>,
    <<H_city, H_date, <<"a", "m", "o", "u", "n", "t">> >>,
    <<H_city, <<"d", "a", "y">>, H_value>> }

NaT == <<0, 0, 0>>

DateTexts == {"2024-03-01", "2023-12-31", "n/a"}

\* pd.to_datetime(..., errors="coerce") on the date texts of the model
ToDatetime(t) ==
  CASE t = "2024-03-01" -> <<2024, 3, 1>>
    [] t = "2023-12-31" -> <<2023, 12, 31>>
    [] OTHER -> NaT

\* index of column name in header cols, 0 when there is none
ColIndex(cols, name) ==
  IF \E k \in 1..Len(cols) : cols[k] = name
  THEN CHOOSE k \in 1..Len(cols) : cols[k] = name /\ \A j \in 1..(k - 1) : cols[j] # name
  ELSE 0

\* line 47: the first column whose lowercased name starts with "emission"
\* or is "value" or "co2"; 0 for None
IsEmissionName(c) ==
  StartsWith(Lower(c), H_emission) \/ Lower(c) \in {H_value, H_co2}

EmissionColumn(cols) ==
  IF \E k \in 1..Len(cols) : IsEmissionName(cols[k])
  THEN CHOOSE k \in 1..Len(cols) :
         IsEmissionName(cols[k]) /\ \A j \in 1..(k - 1) : ~IsEmissionName(cols[j])
  ELSE 0

\* lines 46-52 on a raw file [columns, rows]
Standardise(raw) ==
  LET emi_col == EmissionColumn(raw.columns)
      cols == [k \in 1..Len(raw.columns) |->
                 IF k = emi_col THEN H_emissions ELSE raw.columns[k]]
      c == ColIndex(cols, H_city)
      d == ColIndex(cols, H_date)
      e == ColIndex(cols, H_emissions)
      parsed == [k \in 1..Len(raw.rows) |->
                   [city |-> raw.rows[k][c],
                    date |-> ToDatetime(raw.rows[k][d]),
                    emissions |-> raw.rows[k][e]]]
      HasDate(r) == r.date # NaT
      kept == SelectSeq(parsed, HasDate)
  IN  IF d = 0 THEN Raise("KeyError")
      ELSE IF c = 0 \/ e = 0 THEN Raise("KeyError")
      ELSE Ok([k \in 1..Len(kept) |->
                 [city |-> kept[k].city, date |-> kept[k].date,
                  emissions |-> kept[k].emissions, year |-> kept[k].date[1]]])

\* line 93, second branch: pd.DataFrame(columns=[city, date, emissions, year])
EmptyCm == <<>>

\* Series.mean(): the mean of the values that are not NaN, NaN when none is
SeriesMean(col) ==
  LET Present(v) == ~IsNa(v)
      vals == SelectSeq(col, Present)
  IN  IF vals = <<>> THEN NaN ELSE DivF(SumF(vals), Len(vals))

\* lines 106-107 without the filter on the analysis year
Co2AnyYear(cm, city) ==
  LET Match(r) == r.city = city
      co2_rows == SelectSeq(cm, Match)
  IN  IF co2_rows # <<>>
      THEN SeriesMean([k \in 1..Len(co2_rows) |-> co2_rows[k].emissions])
      ELSE NaN

\* lines 106-107
Co2Of(cm, city) ==
  LET Match(r) == r.city = city /\ r.year = YEARS[1]
      co2_rows == SelectSeq(cm, Match)
  IN  IF co2_rows # <<>>
      THEN SeriesMean([k \in 1..Len(co2_rows) |-> co2_rows[k].emissions])
      ELSE NaN

\* lines 102-105 without the test that the fetch came back missing
FallbackOverrides(pm25, fb, city) ==
  IF fb.exists
  THEN LET Match(r) == r.city = city
           row == SelectSeq(fb.rows, Match)
       IN  IF row # <<>> THEN row[1].pm25 ELSE pm25
  ELSE pm25

\* lines 102-105; fb is [exists, rows], rows of [city, pm25]
Fallback(pm25, fb, city) ==
  IF IsNa(pm25) /\ fb.exists
  THEN LET Match(r) == r.city = city
           row == SelectSeq(fb.rows, Match)
       IN  IF row # <<>> THEN row[1].pm25 ELSE pm25
  ELSE pm25

\* -------------------------------------------------------------- raw inputs
Absent == [exists |-> FALSE, columns |-> <<>>, rows |-> <<>>]

RawCmRows == {"New York", "Boston"} \X DateTexts \X {Whole(10), Whole(20), NaN}

\* every emissions file within the bounds
AllCmFiles ==
  {Absent} \cup
  { [exists |-> TRUE, columns |-> h, rows |-> rs] :
      h \in CmHeaders, rs \in SeqsUpTo(RawCmRows, MaxRows) }

\* the emissions files the pipeline run draws from
RunCmFiles ==
  { Absent,
    [exists |-> TRUE, columns |-> <<H_city, H_date, <<"a", "m", "o", "u", "n", "t">> >>,
     rows |-> <<>>],
    [exists |-> TRUE, columns |-> <<H_city, H_date, <<"C", "O", "2">> >>,
     rows |-> << <<"New York", "2024-03-01", Whole(10)>>,
                 <<"New York", "2024-03-01", Whole(20)>>,
                 <<"Chicago", "2023-12-31", Whole(20)>>,
                 <<"Tampa", "n/a", Whole(10)>> >>] }

NoFallback == [exists |-> FALSE, rows |-> <<>>]

\* the fallback files the pipeline run draws from (12.3 is 123/10)
RunFallbackFiles ==
  { NoFallback,
    [exists |-> TRUE, rows |-> <<>>],
    [exists |-> TRUE,
     rows |-> << [city |-> "chicago", pm25 |-> Whole(9)],
                 [city |-> "Chicago", pm25 |-> Frac(123, 10)],
                 [city |-> "Chicago", pm25 |-> Whole(8)],
                 [city |-> "Tampa", pm25 |-> NaN] >>] }

\* ---------------------------------------------------------------- _read_tri
H_LAT == <<"L", "A", "T">>

H_LON == <<"L", "O", "N">>

H_id == <<"i", "d">>

\* lines 77-78: the first column whose uppercased name starts with prefix; 0 for None
PrefixColumn(cols, prefix) ==
  IF \E k \in 1..Len(cols) : StartsWith(Upper(cols[k]), prefix)
  THEN CHOOSE k \in 1..Len(cols) :
         /\ StartsWith(Upper(cols[k]), prefix)
         /\ \A j \in 1..(k - 1) : ~StartsWith(Upper(cols[j]), prefix)
  ELSE 0

\* gpd.points_from_xy(x, y): a point is <<x, y>>
Point(x, y) == <<x, y>>

NoFrame == [isNone |-> TRUE, rows |-> <<>>]

\* lines 75-84 on a raw file [parses, columns, rows]; parses is FALSE when
\* pd.read_csv or the geometry construction raises
ReadTriTry(file) ==
  IF ~file.parses THEN Raise("ParserError")
  ELSE LET lat == PrefixColumn(file.columns, H_LAT)
           lon == PrefixColumn(file.columns, H_LON)
           HasCoords(r) == ~IsNa(r[lat]) /\ ~IsNa(r[lon])
           kept == SelectSeq(file.rows, HasCoords)
       IN  IF lat = 0 \/ lon = 0 THEN Ok(NoFrame)
           ELSE Ok([isNone |-> FALSE,
                    rows |-> [k \in 1..Len(kept) |->
                                [id |-> kept[k][1],
                                 geometry |-> Point(kept[k][lon], kept[k][lat])]]])

\* _read_tri without its except clause
ReadTriUncaught(file) == ReadTriTry(file)

\* lines 74-84: try ... except Exception: return None
_read_tri(file) ==
  LET r == ReadTriTry(file) IN IF IsExc(r) THEN Ok(NoFrame) ELSE r

\* ------------------------------------------------------------ spatial join
\* a boundary is [NAME, interior, edge]: the points strictly inside it and
\* the points on its outline; predicate="within" holds of the former only
Within(pt, poly) == pt \in poly.interior

\* line 120: place_gdf[place_gdf.NAME.isin(metrics.city)]
Subset(places, m) ==
  LET Configured(b) == \E k \in 1..Len(m) : m[k].city = b.NAME
  IN  SelectSeq(places, Configured)

\* line 121: gpd.sjoin(tri_gdf, subset[[NAME, geometry]], how="inner",
\* predicate="within"): one row per (point, boundary) pair that satisfies it
RECURSIVE JoinOne(_, _)
JoinOne(t, polys) ==
  IF polys = <<>> THEN <<>>
  ELSE (IF Within(t.geometry, Head(polys))
        THEN << [id |-> t.id, geometry |-> t.geometry, NAME |-> Head(polys).NAME] >>
        ELSE <<>>) \o JoinOne(t, Tail(polys))

RECURSIVE SJoin(_, _)
SJoin(pts, polys) ==
  IF pts = <<>> THEN <<>> ELSE JoinOne(Head(pts), polys) \o SJoin(Tail(pts), polys)

\* line 122: groupby(NAME).size(), a series indexed by NAME
GroupSize(joined) ==
  [n \in {joined[k].NAME : k \in 1..Len(joined)} |->
     Cardinality({k \in 1..Len(joined) : joined[k].NAME = n})]

\* line 123 with how="inner": only the cities that have a count are kept
MergeInner(m, cnt) ==
  LET Counted(r) == r.city \in DOMAIN cnt
      kept == SelectSeq(m, Counted)
  IN  [k \in 1..Len(kept) |->
         [city |-> kept[k].city, latitude |-> kept[k].latitude,
          longitude |-> kept[k].longitude, pm25 |-> kept[k].pm25, co2 |-> kept[k].co2,
          tri_facilities_x |-> kept[k].tri_facilities,
          tri_facilities_y |-> Whole(cnt[kept[k].city])]]

\* line 123: metrics.merge(counts, left_on="city", right_on="NAME",
\* how="left").drop(columns="NAME"); a column of both frames that is no key
\* comes out twice, suffixed _x (left) and _y (right)
Merge(m, cnt) ==
  LET Right(city) == IF city \in DOMAIN cnt THEN Whole(cnt[city]) ELSE NaN
  IN  [k \in 1..Len(m) |->
         IF "tri_facilities" \in DOMAIN m[k]
         THEN [city |-> m[k].city, latitude |-> m[k].latitude,
               longitude |-> m[k].longitude, pm25 |-> m[k].pm25, co2 |-> m[k].co2,
               tri_facilities_x |-> m[k].tri_facilities,
               tri_facilities_y |-> Right(m[k].city)]
         ELSE [city |-> m[k].city, latitude |-> m[k].latitude,
               longitude |-> m[k].longitude, pm25 |-> m[k].pm25, co2 |-> m[k].co2,
               tri_facilities |-> Right(m[k].city)]]

\* line 124: metrics["tri_facilities"].fillna(0, inplace=True)
FillTri(m) ==
  IF \E k \in 1..Len(m) : "tri_facilities" \notin DOMAIN m[k] THEN Raise("KeyError")
  ELSE Ok([k \in 1..Len(m) |->
             IF IsNa(m[k].tri_facilities)
             THEN [m[k] EXCEPT !.tri_facilities = Whole(0)] ELSE m[k]])

\* main() without line 111: the table keeps the columns of its rows
NoTriColumn(m) == m

\* line 111: metrics["tri_facilities"] = 0
TriDefault == Whole(0)

AddTriColumn(m) ==
  [k \in 1..Len(m) |->
     [city |-> m[k].city, latitude |-> m[k].latitude, longitude |-> m[k].longitude,
      pm25 |-> m[k].pm25, co2 |-> m[k].co2, tri_facilities |-> TriDefault]]

\* the facility files the pipeline run draws from
TriHeaderUpper ==
  << H_id, <<"L", "A", "T", "I", "T", "U", "D", "E">>,
     <<"L", "O", "N", "G", "I", "T", "U", "D", "E">> >>

TriHeaderLower == << H_id, <<"l", "a", "t">>, <<"l", "o", "n", "g">> >>

TriHeaderXY == << H_id, <<"y">>, <<"x">> >>

\* rows are <<id, latitude, longitude>>
TriRows ==
  << <<1, Whole(1), Whole(5)>>, <<2, Whole(1), Whole(6)>>, <<3, Whole(1), Whole(7)>>,
     <<4, Whole(2), Whole(5)>>, <<5, NaN, Whole(5)>>, <<6, Whole(3), Whole(9)>>,
     <<7, Whole(4), Whole(4)>>, <<8, Whole(9), Whole(9)>> >>

RunTriFiles ==
  { [parses |-> FALSE, columns |-> <<>>, rows |-> <<>>],
    [parses |-> TRUE, columns |-> TriHeaderXY, rows |-> TriRows],
    [parses |-> TRUE, columns |-> TriHeaderUpper, rows |-> TriRows],
    [parses |-> TRUE, columns |-> TriHeaderLower, rows |-> SubSeq(TriRows, 4, 5)],
    [parses |-> TRUE, columns |-> TriHeaderLower, rows |-> <<>>] }

\* the boundary archives the pipeline run draws from: two places named
\* Chicago, a Houston that overlaps the first Chicago at (5, 2), and a place
\* that is no configured city; (7, 1) lies on the first Chicago's outline
RunPlaces ==
  << [NAME |-> "Chicago",
      interior |-> {Point(Whole(5), Whole(1)), Point(Whole(6), Whole(1)),
                    Point(Whole(5), Whole(2))},
      edge |-> {Point(Whole(7), Whole(1))}],
     [NAME |-> "Houston", interior |-> {Point(Whole(5), Whole(2))}, edge |-> {}],
     [NAME |-> "Springfield", interior |-> {Point(Whole(9), Whole(3))}, edge |-> {}],
     [NAME |-> "Chicago", interior |-> {Point(Whole(4), Whole(4))}, edge |-> {}] >>

RunPlaceZips ==
  { [readable |-> FALSE, hasNAME |-> FALSE, places |-> <<>>],
    [readable |-> TRUE, hasNAME |-> FALSE, places |-> <<>>],
    [readable |-> TRUE, hasNAME |-> TRUE, places |-> <<>>],
    [readable |-> TRUE, hasNAME |-> TRUE, places |-> RunPlaces] }

\* ------------------------------------------------------------------ export
\* lines 136-137 without the test for a missing value: f"{nan:.1f}" is "nan"
DispUnchecked(x) == IF ~IsNa(x) THEN Format1f(x) ELSE "nan"

\* lines 136-137
Disp(x) == IF ~IsNa(x) THEN Format1f(x) ELSE "N/A"

\* line 138: str(int(x)); int() of NaN raises ValueError
TriDisp(x) ==
  IF IsNa(x) THEN Raise("ValueError") ELSE Ok(ToString(x[1] \div x[2]))

\* line 129: the table with a point geometry per row
WithGeometry(m) ==
  [k \in 1..Len(m) |-> [row |-> m[k], geometry |-> Point(m[k].longitude, m[k].latitude)]]

\* line 134: the heat layer's points
HeatPoints(g) ==
  LET HasPm(r) == ~IsNa(r.row.pm25)
      valid == SelectSeq(g, HasPm)
  IN  [k \in 1..Len(valid) |->
         <<valid[k].row.latitude, valid[k].row.longitude, valid[k].row.pm25>>]

\* lines 135-144: one marker per row, or the first exception
Markers(g) ==
  IF \E k \in 1..Len(g) : "tri_facilities" \notin DOMAIN g[k].row
  THEN Raise("AttributeError")
  ELSE IF \E k \in 1..Len(g) : IsExc(TriDisp(g[k].row.tri_facilities))
  THEN Raise("ValueError")
  ELSE Ok([k \in 1..Len(g) |->
             [location |-> <<g[k].row.latitude, g[k].row.longitude>>,
              city |-> g[k].row.city,
              pm_disp |-> Disp(g[k].row.pm25),
              co2_disp |-> Disp(g[k].row.co2),
              tri_disp |-> TriDisp(g[k].row.tri_facilities).ok]])

\* ------------------------------------------------------------------- state
VARIABLES
  pc,            \* the line main() is about to execute, "done" or "crashed"
  raised,        \* the exception that left main(): [line, exc]; line 0 for none
  fs_cm,         \* data/carbon_monitor_cities.csv as found on disk
  cm_df, pm_fb,  \* lines 93 and 97
  i, rows,       \* the per-city loop: next index into CITIES, rows so far
  fetched,       \* what get_pm25_latest returned for each city so far
  metrics,       \* the metrics table
  tri_exists, place_exists,   \* line 116
  tri_gdf, place_gdf, subset, tri_in, counts,   \* lines 117-122
  gdf, heat, markers,         \* lines 129-144
  written,       \* the output files written so far, in order
  csv, html,     \* what metrics_by_city.csv and air_quality_map.html hold
  arg, ret       \* argument and result of a helper applied on its own

vars ==
  << pc, raised, fs_cm, cm_df, pm_fb, i, rows, fetched, metrics, tri_exists,
     place_exists, tri_gdf, place_gdf, subset, tri_in, counts, gdf, heat, markers,
     written, csv, html, arg, ret >>

loopVars == <<i, rows, fetched>>

joinVars == <<tri_exists, place_exists, tri_gdf, place_gdf, subset, tri_in, counts>>

exportVars == <<gdf, heat, markers, written, csv, html>>

probeVars == <<arg, ret>>

NoException == [line |-> 0, exc |-> ""]

NoArg == [city |-> "", x |-> ObjectExchange(<<>>)]

NoPlaces == [hasNAME |-> FALSE, places |-> <<>>]

\* everything main() has not touched yet
Blank ==
  /\ raised = NoException
  /\ cm_df = EmptyCm
  /\ pm_fb = NoFallback
  /\ i = 1
  /\ rows = <<>>
  /\ fetched = <<>>
  /\ metrics = <<>>
  /\ tri_exists = FALSE
  /\ place_exists = FALSE
  /\ tri_gdf = NoFrame
  /\ place_gdf = NoPlaces
  /\ subset = <<>>
  /\ tri_in = <<>>
  /\ counts = <<>>
  /\ gdf = <<>>
  /\ heat = <<>>
  /\ markers = <<>>
  /\ written = <<>>
  /\ csv = <<>>
  /\ html = [heat |-> <<>>, markers |-> <<>>]
  /\ ret = Ok(NaN)

Init ==
  /\ pc = "L93"
  /\ fs_cm \in RunCmFiles
  /\ arg = NoArg
  /\ Blank

\* an exception leaves main()
Crash(line, exc) ==
  /\ pc' = "crashed"
  /\ raised' = [line |-> line, exc |-> exc]

Goto(label) ==
  /\ pc' = label
  /\ raised' = raised

\* ------------------------------------------------------------------ main()
\* line 93
ReadCarbonMonitor ==
  /\ pc = "L93"
  /\ IF fs_cm.exists
     THEN LET r == Standardise(fs_cm)
          IN  IF IsExc(r)
              THEN Crash(93, r.exc) /\ cm_df' = cm_df
              ELSE Goto("L97") /\ cm_df' = r.ok
     ELSE Goto("L97") /\ cm_df' = EmptyCm
  /\ UNCHANGED <<fs_cm, pm_fb, loopVars, metrics, joinVars, exportVars, probeVars>>

\* line 97
ReadFallback ==
  /\ pc = "L97"
  /\ \E f \in RunFallbackFiles : pm_fb' = f
  /\ Goto("L100")
  /\ UNCHANGED <<fs_cm, cm_df, loopVars, metrics, joinVars, exportVars, probeVars>>

\* lines 100-108: one pass of the loop body, the HTTP exchange included
CityRow ==
  /\ pc = "L100"
  /\ i <= Len(CITIES)
  /\ \E x \in RunExchanges :
       LET city == CITIES[i][1]
           r == get_pm25_latest(x)
       IN  IF IsExc(r)
           THEN Crash(101, r.exc) /\ UNCHANGED loopVars
           ELSE /\ Goto("L100")
                /\ fetched' = Append(fetched, r.ok)
                /\ rows' = Append(rows,
                     [city |-> city, latitude |-> CITIES[i][2],
                      longitude |-> CITIES[i][3],
                      pm25 |-> Fallback(r.ok, pm_fb, city),
                      co2 |-> Co2Of(cm_df, city)])
                /\ i' = i + 1
  /\ UNCHANGED <<fs_cm, cm_df, pm_fb, metrics, joinVars, exportVars, probeVars>>

\* line 110
BuildMetrics ==
  /\ pc = "L100"
  /\ i > Len(CITIES)
  /\ metrics' = rows
  /\ Goto("L111")
  /\ UNCHANGED <<fs_cm, cm_df, pm_fb, loopVars, joinVars, exportVars, probeVars>>

\* line 111
DefaultTri ==
  /\ pc = "L111"
  /\ metrics' = AddTriColumn(metrics)
  /\ Goto("L116")
  /\ UNCHANGED <<fs_cm, cm_df, pm_fb, loopVars, joinVars, exportVars, probeVars>>

\* line 116
CheckFacilityInputs ==
  /\ pc = "L116"
  /\ \E te \in BOOLEAN, pe \in BOOLEAN :
       /\ tri_exists' = te
       /\ place_exists' = pe
       /\ Goto(IF te /\ pe THEN "L117" ELSE "L128")
  /\ UNCHANGED <<fs_cm, cm_df, pm_fb, loopVars, metrics, tri_gdf, place_gdf, subset,
                 tri_in, counts, exportVars, probeVars>>

\* lines 117-118
ReadFacilities ==
  /\ pc = "L117"
  /\ \E f \in RunTriFiles :
       LET r == _read_tri(f)
       IN  IF IsExc(r)
           THEN Crash(117, r.exc) /\ tri_gdf' = tri_gdf
           ELSE Goto(IF r.ok.isNone THEN "L128" ELSE "L119") /\ tri_gdf' = r.ok
  /\ UNCHANGED <<fs_cm, cm_df, pm_fb, loopVars, metrics, tri_exists, place_exists,
                 place_gdf, subset, tri_in, counts, exportVars, probeVars>>

\* line 119
ReadPlaces ==
  /\ pc = "L119"
  /\ \E z \in RunPlaceZips :
       IF z.readable
       THEN Goto("L120") /\ place_gdf' = [hasNAME |-> z.hasNAME, places |-> z.places]
       ELSE Crash(119, "DataSourceError") /\ place_gdf' = place_gdf
  /\ UNCHANGED <<fs_cm, cm_df, pm_fb, loopVars, metrics, tri_exists, place_exists,
                 tri_gdf, subset, tri_in, counts, exportVars, probeVars>>

\* line 120
FilterPlaces ==
  /\ pc = "L120"
  /\ IF place_gdf.hasNAME
     THEN Goto("L121") /\ subset' = Subset(place_gdf.places, metrics)
     ELSE Crash(120, "AttributeError") /\ subset' = subset
  /\ UNCHANGED <<fs_cm, cm_df, pm_fb, loopVars, metrics, tri_exists, place_exists,
                 tri_gdf, place_gdf, tri_in, counts, exportVars, probeVars>>

\* line 121
JoinFacilities ==
  /\ pc = "L121"
  /\ tri_in' = SJoin(tri_gdf.rows, subset)
  /\ Goto("L122")
  /\ UNCHANGED <<fs_cm, cm_df, pm_fb, loopVars, metrics, tri_exists, place_exists,
                 tri_gdf, place_gdf, subset, counts, exportVars, probeVars>>

\* line 122
CountFacilities ==
  /\ pc = "L122"
  /\ counts' = GroupSize(tri_in)
  /\ Goto("L123")
  /\ UNCHANGED <<fs_cm, cm_df, pm_fb, loopVars, metrics, tri_exists, place_exists,
                 tri_gdf, place_gdf, subset, tri_in, exportVars, probeVars>>

\* line 123
MergeCounts ==
  /\ pc = "L123"
  /\ metrics' = Merge(metrics, counts)
  /\ Goto("L124")
  /\ UNCHANGED <<fs_cm, cm_df, pm_fb, loopVars, joinVars, exportVars, probeVars>>

\* line 124
FillMissingCounts ==
  /\ pc = "L124"
  /\ LET r == FillTri(metrics)
     IN  IF IsExc(r)
         THEN Crash(124, r.exc) /\ metrics' = metrics
         ELSE Goto("L128") /\ metrics' = r.ok
  /\ UNCHANGED <<fs_cm, cm_df, pm_fb, loopVars, joinVars, exportVars, probeVars>>

\* lines 127-128
WriteCsv ==
  /\ pc = "L128"
  /\ csv' = metrics
  /\ written' = Append(written, "csv")
  /\ Goto("L129")
  /\ UNCHANGED <<fs_cm, cm_df, pm_fb, loopVars, metrics, joinVars, gdf, heat, markers,
                 html, probeVars>>

\* lines 129-130
WriteGeoJson ==
  /\ pc = "L129"
  /\ gdf' = WithGeometry(metrics)
  /\ written' = Append(written, "geojson")
  /\ Goto("L133")
  /\ UNCHANGED <<fs_cm, cm_df, pm_fb, loopVars, metrics, joinVars, heat, markers, csv,
                 html, probeVars>>

\* lines 133-144
BuildMap ==
  /\ pc = "L133"
  /\ LET r == Markers(gdf)
     IN  IF IsExc(r)
         THEN Crash(138, r.exc) /\ heat' = HeatPoints(gdf) /\ markers' = markers
         ELSE Goto("L145") /\ heat' = HeatPoints(gdf) /\ markers' = r.ok
  /\ UNCHANGED <<fs_cm, cm_df, pm_fb, loopVars, metrics, joinVars, gdf, written, csv,
                 html, probeVars>>

\* line 145
SaveMap ==
  /\ pc = "L145"
  /\ html' = [heat |-> heat, markers |-> markers]
  /\ written' = Append(written, "html")
  /\ Goto("L146")
  /\ UNCHANGED <<fs_cm, cm_df, pm_fb, loopVars, metrics, joinVars, gdf, heat, markers,
                 csv, probeVars>>

\* line 146
Complete ==
  /\ pc = "L146"
  /\ Goto("done")
  /\ UNCHANGED <<fs_cm, cm_df, pm_fb, loopVars, metrics, joinVars, exportVars, probeVars>>

Next ==
  \/ ReadCarbonMonitor
  \/ ReadFallback
  \/ CityRow
  \/ BuildMetrics
  \/ DefaultTri
  \/ CheckFacilityInputs
  \/ ReadFacilities
  \/ ReadPlaces
  \/ FilterPlaces
  \/ JoinFacilities
  \/ CountFacilities
  \/ MergeCounts
  \/ FillMissingCounts
  \/ WriteCsv
  \/ WriteGeoJson
  \/ BuildMap
  \/ SaveMap
  \/ Complete

Spec == Init /\ [][Next]_vars

\* the run is one sequential thread: a step that can be taken is taken
FairSpec == Spec /\ WF_vars(Next)

\* ------------------------------------------- get_pm25_latest on its own
\* line 101 for one city and any exchange within the bounds
InitFetch ==
  /\ pc = "L101"
  /\ fs_cm = Absent
  /\ \E k \in 1..Len(CITIES), x \in Exchanges : arg = [city |-> CITIES[k][1], x |-> x]
  /\ Blank

CallFetch ==
  /\ pc = "L101"
  /\ LET r == get_pm25_latest(arg.x)
     IN  IF IsExc(r)
         THEN Crash(101, r.exc) /\ ret' = ret
         ELSE Goto("L102") /\ ret' = r
  /\ UNCHANGED <<fs_cm, cm_df, pm_fb, loopVars, metrics, joinVars, exportVars, arg>>

NextFetch == CallFetch

SpecFetch == InitFetch /\ [][NextFetch]_vars

\* ------------------------------------- lines 93 and 106-107 on their own
\* any emissions file within the bounds, then the CO2 of one city
InitCo2 ==
  /\ pc = "L93"
  /\ fs_cm \in AllCmFiles
  /\ arg = NoArg
  /\ Blank

CallCo2 ==
  /\ pc = "L97"
  /\ \E k \in 1..Len(CITIES) :
       /\ arg' = [arg EXCEPT !.city = CITIES[k][1]]
       /\ ret' = Ok(Co2Of(cm_df, CITIES[k][1]))
  /\ Goto("L108")
  /\ UNCHANGED <<fs_cm, cm_df, pm_fb, loopVars, metrics, joinVars, exportVars>>

NextCo2 == ReadCarbonMonitor \/ CallCo2

SpecCo2 == InitCo2 /\ [][NextCo2]_vars

\* ================================================================== claims
CityOf(k) == CITIES[k][1]

AllCities == 1..Len(CITIES)

HasTri(m) == \A k \in 1..Len(m) : "tri_facilities" \in DOMAIN m[k]

IsCount(v) == v[2] = 1 /\ v[1] >= 0

JoinLines == 117..124

ExportPcs == {"L128", "L129", "L133", "L145", "L146", "done"}

\* the metrics table has been built and given its tri_facilities column
Assembled ==
  \/ pc \in {"L116", "L117", "L119", "L120", "L121", "L122", "L123", "L124"}
  \/ pc \in ExportPcs
  \/ pc = "crashed" /\ raised.line > 111

\* line 116 or line 118 has skipped the spatial join
JoinSkipped ==
  /\ pc \in ExportPcs \/ (pc = "crashed" /\ raised.line >= 128)
  /\ ~tri_exists \/ ~place_exists \/ tri_gdf.isNone

\* the spatial join has run to its last line
JoinRan ==
  /\ pc \in ExportPcs \/ (pc = "crashed" /\ raised.line >= 124)
  /\ tri_exists /\ place_exists /\ ~tri_gdf.isNone

AllWritten == <<"csv", "geojson", "html">>

RECURSIVE SumOver(_, _)
SumOver(S, f) ==
  IF S = {} THEN Whole(0)
  ELSE LET k == CHOOSE j \in S : TRUE IN AddF(f[k], SumOver(S \ {k}, f))

\* x is the mean of the values of f at the indices S
IsMeanOf(x, S, f) ==
  /\ ~IsNa(x)
  /\ x[1] * SumOver(S, f)[2] * Cardinality(S) = SumOver(S, f)[1] * x[2]

\* C1 (as claimed): once the metrics table has its tri_facilities column, every
\* later state has that column, with a non-negative integer for each of the
\* configured cities.
C1_TriAlwaysPresent ==
  Assembled =>
    /\ Len(metrics) = Len(CITIES)
    /\ HasTri(metrics)
    /\ \A k \in 1..Len(metrics) : IsCount(metrics[k].tri_facilities)

\* C2 (as claimed): no exception leaves main() from the lines of the
\* spatial-join stage.
C2_NoExceptionFromJoin == ~(pc = "crashed" /\ raised.line \in JoinLines)

\* _read_tri raises nothing, and a run that skipped the spatial join has not
\* crashed and, once complete, has exported 0 facilities for every city
C3_SkipSafe ==
  /\ raised.line # 117
  /\ JoinSkipped =>
       /\ pc # "crashed"
       /\ pc = "done" =>
            /\ written = AllWritten
            /\ Len(csv) = Len(CITIES)
            /\ HasTri(csv)
            /\ \A k \in 1..Len(csv) : csv[k].tri_facilities = Whole(0)

\* C3: whenever the spatial join is skipped (a facility input is absent, or
\* _read_tri reports no data, which it does without raising), the run raises
\* nothing afterwards, reaches the completion notice with all three outputs
\* written, and the exported table holds 0 facilities for each configured city.
C3_SkipCompletes == [](C3_SkipSafe) /\ (JoinSkipped ~> pc = "done")

C3_Witness ==
  /\ pc = "done"
  /\ tri_exists /\ place_exists /\ tri_gdf.isNone
  /\ written = AllWritten
  /\ \A k \in AllCities : csv[k].tri_facilities = Whole(0)

\* the first row of the fallback table whose city is the given one, 0 if none
FirstFallbackRow(city) ==
  IF \E k \in 1..Len(pm_fb.rows) : pm_fb.rows[k].city = city
  THEN CHOOSE k \in 1..Len(pm_fb.rows) :
         /\ pm_fb.rows[k].city = city
         /\ \A j \in 1..(k - 1) : pm_fb.rows[j].city # city
  ELSE 0

\* C4: each assembled pm25 follows fetch, then fallback, then missing: a
\* fetched value is kept as it is; a missing fetch takes the pm25 of the first
\* fallback row whose city equals the city's name exactly; with no fallback
\* table or no such row it stays missing.
C4_PriorityChain ==
  \A k \in 1..Len(rows) :
    IF ~IsNa(fetched[k]) THEN rows[k].pm25 = fetched[k]
    ELSE IF pm_fb.exists /\ FirstFallbackRow(CityOf(k)) # 0
         THEN rows[k].pm25 = pm_fb.rows[FirstFallbackRow(CityOf(k))].pm25
         ELSE IsNa(rows[k].pm25)

C4_Witness ==
  /\ Len(rows) = Len(CITIES)
  /\ IsNa(fetched[3]) /\ rows[3].pm25 = Frac(123, 10)
  /\ ~IsNa(fetched[1]) /\ rows[1].pm25 = fetched[1]
  /\ IsNa(fetched[2]) /\ IsNa(rows[2].pm25)

\* the measurements of an exchange, when it is a JSON object answered with
\* a success status
ReportedValues(x) ==
  IF x.net = "ok" /\ x.status < 400 /\ x.body.kind = "object"
  THEN Flatten(x.body.results) ELSE <<>>

Numeric(ms) ==
  \A k \in 1..Len(ms) : "value" \in DOMAIN ms[k] /\ ms[k].value[1] = "num"

\* C5: get_pm25_latest never raises: the call at line 101 returns, with the
\* missing sentinel for every failed exchange (network error, timeout, error
\* status, a body that is no JSON object, a measurement without a numeric
\* value, no measurement at all) and with the mean of all the reported values
\* otherwise.
C5_FetchNeverRaises ==
  /\ pc # "crashed"
  /\ pc = "L102" =>
       LET ms == ReportedValues(arg.x)
       IN  IF ms # <<>> /\ Numeric(ms)
           THEN IsMeanOf(ret.ok, 1..Len(ms), [k \in 1..Len(ms) |-> Whole(ms[k].value[2])])
           ELSE IsNa(ret.ok)

C5_Witness ==
  /\ pc = "L102"
  /\ arg.x.status = 410
  /\ IsNa(ret.ok)

\* the rows of the normalized emissions table of the city and analysis year
Co2Rows(city) ==
  {k \in 1..Len(cm_df) : cm_df[k].city = city /\ cm_df[k].year = YEARS[1]}

Co2Present(city) == {k \in Co2Rows(city) : ~IsNa(cm_df[k].emissions)}

Emissions == [k \in 1..Len(cm_df) |-> cm_df[k].emissions]

\* C6 (as claimed): co2 is the mean of the emissions of exactly the rows of
\* the city and analysis year (a sum with a missing term is missing);
\* with no such row, or no emissions file, it is the missing sentinel.
C6_MeanOfAllRows ==
  pc = "L108" =>
    IF Co2Rows(arg.city) = {} \/ Co2Present(arg.city) # Co2Rows(arg.city)
    THEN IsNa(ret.ok)
    ELSE IsMeanOf(ret.ok, Co2Rows(arg.city), Emissions)

\* C6 (amended): co2 is the mean of the emissions that are present among the
\* rows of the city and analysis year; with no such row, none with an
\* emission, or no emissions file, it is the missing sentinel.
C6_MeanOfPresentRows ==
  pc = "L108" =>
    /\ ~fs_cm.exists => IsNa(ret.ok)
    /\ IF Co2Present(arg.city) = {}
       THEN IsNa(ret.ok)
       ELSE IsMeanOf(ret.ok, Co2Present(arg.city), Emissions)

C6_Witness ==
  /\ pc = "L108"
  /\ arg.city = "New York"
  /\ Cardinality(Co2Rows(arg.city)) = 2
  /\ Len(cm_df) = 2
  /\ \E j, k \in Co2Rows(arg.city) :
       j # k /\ cm_df[j].emissions = Whole(10) /\ cm_df[k].emissions = Whole(20)
  /\ ret.ok = Whole(15)

CitiesOf(m) == [k \in 1..Len(m) |-> m[k].city]

\* C7: from the moment it is built, through the merge of the facility counts
\* and in the exported file, the metrics table has exactly one row per
\* configured city, in the order of CITIES.
C7_OneRowPerCity ==
  /\ (pc = "L111" \/ Assembled) => CitiesOf(metrics) = CityNames
  /\ written # <<>> => CitiesOf(csv) = CityNames

C7_Witness ==
  /\ pc = "done"
  /\ written = AllWritten
  /\ CitiesOf(csv) = CityNames

\* the facility points that lie within a retained boundary named as the city
PointsIn(city) ==
  {j \in 1..Len(tri_gdf.rows) :
     \E b \in 1..Len(place_gdf.places) :
       /\ place_gdf.places[b].NAME = city
       /\ Within(tri_gdf.rows[j].geometry, place_gdf.places[b])}

\* C8 (as claimed): after the spatial join each city's tri_facilities is the
\* number of facility points within a retained boundary of that name, 0 for a
\* city with none.
C8_CountsAfterJoin ==
  JoinRan =>
    /\ HasTri(metrics)
    /\ \A k \in 1..Len(metrics) :
         metrics[k].tri_facilities = Whole(Cardinality(PointsIn(metrics[k].city)))

Terminal == pc \in {"done", "crashed"}

\* a run that has ended has written none or all three of the outputs
C9_NoPartialSafe == Terminal => written \in {<<>>, AllWritten}

\* C9: a run that ends has written none or all three of the outputs, and a
\* run that reaches the first output write goes on to write all three.
C9_AllOrNothing == [](C9_NoPartialSafe) /\ (pc = "L128" ~> written = AllWritten)

C9_Witness ==
  /\ pc = "done"
  /\ written = AllWritten

HeatAt(k) ==
  \E h \in 1..Len(html.heat) :
    html.heat[h][1] = CITIES[k][2] /\ html.heat[h][2] = CITIES[k][3]

BothFailed(k) ==
  IsNa(fetched[k]) /\ (~pm_fb.exists \/ FirstFallbackRow(CityOf(k)) = 0)

\* C10: no exception leaves the map lines; in the saved map a city whose
\* fetch and fallback both failed has a missing pm25, a popup that shows
\* "N/A" for PM2.5 and no point in the heat layer, and every city with a pm25
\* value has a popup that shows a number and a point in the heat layer.
C10_MissingShownAsNA ==
  /\ ~(pc = "crashed" /\ raised.line \in 133..145)
  /\ "html" \in {written[j] : j \in 1..Len(written)} =>
       \A k \in AllCities :
         /\ html.markers[k].city = CityOf(k)
         /\ BothFailed(k) => IsNa(csv[k].pm25)
         /\ IsNa(csv[k].pm25) => html.markers[k].pm_disp = "N/A" /\ ~HeatAt(k)
         /\ ~IsNa(csv[k].pm25) =>
              /\ html.markers[k].pm_disp = Format1f(csv[k].pm25)
              /\ html.markers[k].pm_disp # "N/A"
              /\ HeatAt(k)

C10_Witness ==
  /\ pc = "done"
  /\ BothFailed(2) /\ html.markers[2].pm_disp = "N/A" /\ ~HeatAt(2)
  /\ html.markers[3].pm_disp = "12.3" /\ HeatAt(3)

====
